---- MODULE Spec2Model ----
(***************************************************************************)
(* A model of the fine-tuning scripts src/trainval.py (Adam) and           *)
(* src/trainval_adafactor.py (Adafactor): the binary search and the chunk  *)
(* sampler, the Adafactor slot layout and update clipping, and the         *)
(* validation-gated training loop with its checkpoint store, over one run   *)
(* and over runs started again on the same run directory.                  *)
(*                                                                         *)
(* Python's None is the empty tuple << >>, and Some(v) is <<v>>.           *)
(***************************************************************************)
EXTENDS Integers, Sequences, FiniteSets, TLC

VARIABLES
    \* binary_search(f, lo, hi): one call
    bs_f, bs_lo, bs_hi, bs_ret, bs_pc,
    \* Sampler: the corpus and one call of sample(length)
    chunks, length, s_pc, index, chunk_i, within_chunk, result,
    \* AdafactorOptimizer: its configuration, the variables it is given, their slots
    factored, beta1, var_list, slots, o_pc,
    \* AdafactorOptimizer._resource_apply_dense: the scaled update x and its clipping
    clipping_threshold, x, x_clipped, c_pc,
    \* train_main: its arguments
    variant, stop_after, save_every, sample_every,
    \* train_main: the checkpoint and sample stores (files)
    counter_file, ckpt_models, sample_files,
    \* train_main: its locals, and where it is
    pc, counter, counter_read, avg_loss, val_loss, best_val_loss,
    missed_val_checkpoints,
    \* the process: a delivered SIGINT, the last line printed, the exit status
    sigint, printed, exit_status,
    \* the TensorFlow session: the global step variable, and the t and the
    \* decay rate evaluated by the last run of opt_apply
    global_step, step_t, decay_rate,
    \* the run directory over several runs: the step of the snapshot restored
    \* at startup, every value written to the counter file, the runs started
    restored, written, restarts

vars == <<bs_f, bs_lo, bs_hi, bs_ret, bs_pc,
          chunks, length, s_pc, index, chunk_i, within_chunk, result,
          factored, beta1, var_list, slots, o_pc,
          clipping_threshold, x, x_clipped, c_pc,
          variant, stop_after, save_every, sample_every,
          counter_file, ckpt_models, sample_files,
          pc, counter, counter_read, avg_loss, val_loss, best_val_loss,
          missed_val_checkpoints, sigint, printed, exit_status,
          global_step, step_t, decay_rate, restored, written, restarts>>

bs_vars == <<bs_f, bs_lo, bs_hi, bs_ret, bs_pc>>
s_vars == <<chunks, length, s_pc, index, chunk_i, within_chunk, result>>
o_vars == <<factored, beta1, var_list, slots, o_pc>>
c_vars == <<clipping_threshold, x, x_clipped, c_pc>>
cfg_vars == <<variant, stop_after, save_every, sample_every>>
store_vars == <<counter_file, ckpt_models, sample_files>>
loss_vars == <<avg_loss, val_loss, best_val_loss, missed_val_checkpoints>>
out_vars == <<printed, exit_status>>
sched_vars == <<global_step, step_t, decay_rate>>
hist_vars == <<restored, written, restarts>>
t_vars == <<cfg_vars, store_vars, loss_vars, out_vars, pc, counter,
            counter_read, sigint, sched_vars, hist_vars>>
pure_vars == <<bs_vars, s_vars, o_vars, c_vars>>

None == << >>
Some(v) == <<v>>

Min(a, b) == IF a < b THEN a ELSE b

RECURSIVE SumSeq(_)
SumSeq(s) == IF s = << >> THEN 0 ELSE Head(s) + SumSeq(Tail(s))

(***************************************************************************)
(* Bounds of the model.                                                    *)
(***************************************************************************)
SearchLo == 1        \* binary_search is tried on ranges inside -SearchLo..SearchHi
SearchHi == 3
MaxChunks == 3       \* chunks per corpus
MaxChunkSize == 4    \* tokens per chunk
MaxLength == 4       \* requested sample length
MaxRank == 3         \* rank of a trainable variable
MaxDim == 4          \* size of one axis of a trainable variable
MaxElems == 3        \* elements of the update tensor x
MaxAbs == 2          \* |value| of a finite element of x
LongRun == 67        \* stop_after of the long training run
ShortRun == 12       \* stop_after of the short and the resumed runs
LossScale == 10      \* losses and their averages are kept in 1/LossScale units
MaxRestarts == 2     \* times the script is started again on the same run directory

(***************************************************************************)
(* binary_search (trainval.py 58-67, trainval_adafactor.py 60-69).         *)
(* f is a function over the integers of the range; // is floor division.   *)
(***************************************************************************)
RECURSIVE bs_loop_swapped(_, _, _)
bs_loop_swapped(f, lo, hi) ==
    IF hi > lo + 1
    THEN LET mid == (lo + hi) \div 2
         IN  IF f[mid] THEN bs_loop_swapped(f, mid, hi)
                       ELSE bs_loop_swapped(f, lo, mid)
    ELSE hi

\* the while loop of binary_search
RECURSIVE bs_loop(_, _, _)
bs_loop(f, lo, hi) ==
    IF hi > lo + 1
    THEN LET mid == (lo + hi) \div 2
         IN  IF f[mid] THEN bs_loop(f, lo, mid)
                       ELSE bs_loop(f, mid, hi)
    ELSE hi

binary_search(f, lo, hi) ==
    IF f[lo] \/ ~f[hi] THEN None ELSE Some(bs_loop(f, lo, hi))

(***************************************************************************)
(* Sampler (trainval.py 70-93, trainval_adafactor.py 72-95).               *)
(* A corpus is a sequence of chunks, a chunk a sequence of tokens; Python  *)
(* chunk i (0-based) is chunks[i + 1].                                     *)
(***************************************************************************)
\* Sampler.__init__: self.total_size
total_size(cs) == SumSeq([c \in 1..Len(cs) |-> Len(cs[c])])

\* Sampler.__init__: self.boundaries, a list indexed 0..len(chunks)
boundaries(cs) == [j \in 0..Len(cs) |-> SumSeq([c \in 1..j |-> Len(cs[c])])]

\* Python's seq[a:b] for 0 <= a: the elements a .. min(b, len)-1
Slice(seq, a, b) == SubSeq(seq, a + 1, Min(b, Len(seq)))

SampleAssertOkInclusive(cs, len) == len <= total_size(cs) \div Len(cs)

\* the assert of sample(): length < self.total_size // len(self.chunks)
SampleAssertOk(cs, len) == len < total_size(cs) \div Len(cs)

\* random.randint(0, self.total_size - length - 1): both ends included
RandintRange(cs, len) == 0..(total_size(cs) - len - 1)

\* i = binary_search(lambda j: self.boundaries[j] > index, 0, len(self.boundaries) - 1) - 1
\* (None - 1 raises TypeError: no chunk index)
ChunkOf(cs, idx) ==
    LET b == boundaries(cs)
        r == binary_search([j \in 0..Len(cs) |-> b[j] > idx], 0, Len(cs))
    IN  IF r = None THEN None ELSE Some(r[1] - 1)

AcceptsIgnoringLength(cs, idx, len, i) == boundaries(cs)[i + 1] > idx

AcceptsBeyondWindow(cs, idx, len, i) == boundaries(cs)[i + 1] > idx + len + 1

\* if self.boundaries[i + 1] > index + length
Accepts(cs, idx, len, i) == boundaries(cs)[i + 1] > idx + len

\* sample(): the assert, before the loop
SampleAssert ==
    /\ s_pc = "call"
    /\ s_pc' = IF SampleAssertOk(chunks, length) THEN "loop" ELSE "failed"
    /\ UNCHANGED <<chunks, length, index, chunk_i, within_chunk, result>>

\* one turn of `while True` whose draw is accepted: the slice is returned
SampleAccept ==
    /\ s_pc = "loop"
    /\ \E idx \in RandintRange(chunks, length) :
          LET ci == ChunkOf(chunks, idx)
          IN  /\ ci # None
              /\ Accepts(chunks, idx, length, ci[1])
              /\ index' = idx
              /\ chunk_i' = ci[1]
              /\ within_chunk' = idx - boundaries(chunks)[ci[1]]
              /\ result' = Some(Slice(chunks[ci[1] + 1],
                                      idx - boundaries(chunks)[ci[1]],
                                      idx - boundaries(chunks)[ci[1]] + length))
              /\ s_pc' = "returned"
    /\ UNCHANGED <<chunks, length>>

\* one turn of `while True` whose draw is rejected: draw again
SampleReject ==
    /\ s_pc = "loop"
    /\ \E idx \in RandintRange(chunks, length) :
          LET ci == ChunkOf(chunks, idx)
          IN  /\ ci # None
              /\ ~Accepts(chunks, idx, length, ci[1])
              /\ index' = idx
              /\ chunk_i' = ci[1]
    /\ UNCHANGED <<chunks, length, s_pc, within_chunk, result>>

(***************************************************************************)
(* AdafactorOptimizer._create_slots (trainval_adafactor.py 403-425).       *)
(* A shape is a sequence of axis sizes; a variable's slots are a function  *)
(* from slot name to the shape of the slot.  beta1 is in tenths.           *)
(***************************************************************************)
RECURSIVE Numel(_)
Numel(shape) == IF shape = << >> THEN 1 ELSE Head(shape) * Numel(Tail(shape))

\* self._factored and len(shape) >= 2
should_use_factored_second_moment_estimate(fact, shape) ==
    fact /\ Len(shape) >= 2

\* shape[:-1]
RowShape(shape) == Slice(shape, 0, Len(shape) - 1)

ColShapeDropsLast(shape) == Slice(shape, 0, Len(shape) - 1)

\* shape[:-2] + shape[-1:]
ColShape(shape) ==
    Slice(shape, 0, Len(shape) - 2) \o Slice(shape, Len(shape) - 1, Len(shape))

\* the body of `for var in var_list`: the slots one variable gets
SlotsOf(fact, b1, shape) ==
    LET momentum == IF b1 # 0 THEN {"m"} ELSE {}
        second == IF should_use_factored_second_moment_estimate(fact, shape)
                  THEN {"vr", "vc"} ELSE {"v"}
    IN  [n \in momentum \cup second |->
            CASE n = "m" -> shape
              [] n = "vr" -> RowShape(shape)
              [] n = "vc" -> ColShape(shape)
              [] n = "v" -> shape]

create_slots ==
    /\ o_pc = "init"
    /\ slots' = [v \in 1..Len(var_list) |-> SlotsOf(factored, beta1, var_list[v])]
    /\ o_pc' = "created"
    /\ UNCHANGED <<factored, beta1, var_list>>

(***************************************************************************)
(* Update clipping in _resource_apply_dense (trainval_adafactor.py         *)
(* 493-495) and reduce_rms (531-532).  A tensor is a record [v, scale]:    *)
(* v its elements, each Some(integer) or NaN (a non-finite float), and     *)
(* scale = <<p, q>> the square of a common positive factor p/q, so that    *)
(* element i is v[i] * sqrt(p/q).  A scalar root is kept by its square.    *)
(***************************************************************************)
NaN == None

Finite(t) == \A i \in 1..Len(t.v) : t.v[i] # NaN

RECURSIVE SumSquares(_)
SumSquares(v) ==
    IF v = << >> THEN 0 ELSE Head(v)[1] * Head(v)[1] + SumSquares(Tail(v))

\* tf.sqrt(tf.reduce_mean(tf.square(x))): the square of the result, <<num, den>>
reduce_rms(t) ==
    IF ~Finite(t) THEN NaN
    ELSE Some(<<SumSquares(t.v) * t.scale[1], Len(t.v) * t.scale[2]>>)

clipping_denom_min(t, thr) ==
    LET r == reduce_rms(t)
    IN  IF r = NaN THEN NaN
        ELSE IF r[1][1] < thr * thr * r[1][2]
             THEN Some(<<r[1][1], thr * thr * r[1][2]>>)
             ELSE Some(<<1, 1>>)

\* tf.maximum(1.0, reduce_rms(x) / self._clipping_threshold): its square
\* (of a NaN rms: NaN; were it 1.0, x / 1.0 would keep the NaN of x as well)
clipping_denom(t, thr) ==
    LET r == reduce_rms(t)
    IN  IF r = NaN THEN NaN
        ELSE IF r[1][1] > thr * thr * r[1][2]
             THEN Some(<<r[1][1], thr * thr * r[1][2]>>)
             ELSE Some(<<1, 1>>)

\* x /= clipping_denom
Divide(t, d) ==
    IF d = NaN THEN [v |-> [i \in 1..Len(t.v) |-> NaN], scale |-> t.scale]
    ELSE [v |-> t.v, scale |-> <<t.scale[1] * d[1][2], t.scale[2] * d[1][1]>>]

\* if self._clipping_threshold is not None: ...
Clip ==
    /\ c_pc = "scaled"
    /\ x_clipped' = IF clipping_threshold # None
                    THEN Divide(x, clipping_denom(x, clipping_threshold[1]))
                    ELSE x
    /\ c_pc' = "clipped"
    /\ UNCHANGED <<clipping_threshold, x>>

(***************************************************************************)
(* Specifications of the pure parts: the inputs are drawn in the initial   *)
(* state and the operation is applied by the actions.                      *)
(***************************************************************************)
BsIdle ==
    /\ bs_f = << >> /\ bs_lo = 0 /\ bs_hi = 0 /\ bs_ret = None /\ bs_pc = "idle"

SIdle ==
    /\ chunks = << >> /\ length = 0 /\ s_pc = "idle" /\ index = -1
    /\ chunk_i = -1 /\ within_chunk = -1 /\ result = None

OIdle ==
    /\ factored = TRUE /\ beta1 = 0 /\ var_list = << >> /\ slots = << >>
    /\ o_pc = "idle"

EmptyTensor == [v |-> << >>, scale |-> <<1, 1>>]

CIdle ==
    /\ clipping_threshold = None /\ x = EmptyTensor /\ x_clipped = EmptyTensor
    /\ c_pc = "idle"

TIdle ==
    /\ variant = "none" /\ stop_after = 0 /\ save_every = 0 /\ sample_every = 0
    /\ counter_file = None /\ ckpt_models = << >> /\ sample_files = {}
    /\ pc = "idle" /\ counter = 0 /\ counter_read = None
    /\ avg_loss = <<0, 0>> /\ val_loss = <<0, 0>> /\ best_val_loss = <<0, 1>>
    /\ missed_val_checkpoints = 0
    /\ sigint = FALSE /\ printed = << >> /\ exit_status = None
    /\ global_step = 0 /\ step_t = None /\ decay_rate = None
    /\ restored = None /\ written = {} /\ restarts = 0

\* ---- binary_search
SearchRange == (0 - SearchLo)..SearchHi

Search ==
    /\ bs_pc = "call"
    /\ bs_ret' = binary_search(bs_f, bs_lo, bs_hi)
    /\ bs_pc' = "returned"
    /\ UNCHANGED <<bs_f, bs_lo, bs_hi, s_vars, o_vars, c_vars, t_vars>>

SearchInit ==
    /\ bs_f \in [SearchRange -> BOOLEAN]
    /\ bs_lo \in SearchRange
    /\ bs_hi \in SearchRange
    /\ bs_ret = None
    /\ bs_pc = "call"
    /\ SIdle /\ OIdle /\ CIdle /\ TIdle

SearchNext == Search

SpecSearch == SearchInit /\ [][SearchNext]_vars

\* ---- Sampler
\* every token is its position in the corpus, so that a slice shows where it
\* was taken from
ChunksOfSizes(sizes) ==
    [c \in 1..Len(sizes) |->
        [k \in 1..sizes[c] |-> SumSeq(SubSeq(sizes, 1, c - 1)) + k]]

\* every corpus within the bounds, and three chunks of 10 tokens
Corpora ==
    {ChunksOfSizes(sizes) :
        sizes \in UNION {[1..n -> 1..MaxChunkSize] : n \in 1..MaxChunks}
                  \cup {<<10, 10, 10>>}}

SamplerInit ==
    /\ chunks \in Corpora
    /\ length \in 0..MaxLength
    /\ s_pc = "call"
    /\ index = -1 /\ chunk_i = -1 /\ within_chunk = -1
    /\ result = None
    /\ BsIdle /\ OIdle /\ CIdle /\ TIdle

SamplerNext ==
    \/ SampleAssert /\ UNCHANGED <<bs_vars, o_vars, c_vars, t_vars>>
    \/ SampleAccept /\ UNCHANGED <<bs_vars, o_vars, c_vars, t_vars>>
    \/ SampleReject /\ UNCHANGED <<bs_vars, o_vars, c_vars, t_vars>>

SpecSampler == SamplerInit /\ [][SamplerNext]_vars

\* random.randint is fair: an index that the loop can draw and accept at
\* every turn is drawn at some turn
SpecSamplerFair ==
    /\ SamplerInit
    /\ [][SamplerNext]_vars
    /\ WF_vars(SampleAssert /\ UNCHANGED <<bs_vars, o_vars, c_vars, t_vars>>)
    /\ WF_vars(SampleAccept /\ UNCHANGED <<bs_vars, o_vars, c_vars, t_vars>>)

\* ---- AdafactorOptimizer._create_slots
Shapes == UNION {[1..r -> 1..MaxDim] : r \in 0..MaxRank}

\* beta1, in tenths: 0 (no momentum) or train_main's 0.9
Beta1Values == {0, 9}

SlotsInit ==
    /\ factored \in BOOLEAN
    /\ beta1 \in Beta1Values
    /\ var_list \in {<<shape>> : shape \in Shapes}
    /\ slots = << >>
    /\ o_pc = "init"
    /\ BsIdle /\ SIdle /\ CIdle /\ TIdle

SlotsNext == create_slots /\ UNCHANGED <<bs_vars, s_vars, c_vars, t_vars>>

SpecSlots == SlotsInit /\ [][SlotsNext]_vars

\* ---- update clipping
Elements == {Some(k) : k \in (0 - MaxAbs)..MaxAbs} \cup {NaN}

Thresholds == {None, Some(1), Some(2)}

ClipInit ==
    /\ clipping_threshold \in Thresholds
    /\ x \in {[v |-> e, scale |-> <<1, 1>>] :
                e \in UNION {[1..n -> Elements] : n \in 1..MaxElems}}
    /\ x_clipped = EmptyTensor
    /\ c_pc = "scaled"
    /\ BsIdle /\ SIdle /\ OIdle /\ TIdle

ClipNext == Clip /\ UNCHANGED <<bs_vars, s_vars, o_vars, t_vars>>

SpecClip == ClipInit /\ [][ClipNext]_vars

(***************************************************************************)
(* Properties of the pure parts.                                           *)
(***************************************************************************)
Range(seq) == {seq[k] : k \in 1..Len(seq)}

\* C1: for nonempty chunks and 0 < length < total_size // len(chunks), a value
\* returned by sample(length) has exactly `length` tokens, and they are the
\* tokens within_chunk .. within_chunk+length-1 of the single chunk i: the
\* window lies inside that chunk.
SampleWithinOneChunk ==
    (s_pc = "returned" /\ length > 0) =>
        /\ result # None
        /\ Len(result[1]) = length
        /\ chunk_i \in 0..(Len(chunks) - 1)
        /\ within_chunk >= 0
        /\ within_chunk + length <= Len(chunks[chunk_i + 1])
        /\ \A k \in 1..length :
               result[1][k] = chunks[chunk_i + 1][within_chunk + k]
        /\ \E c \in 1..Len(chunks) : Range(result[1]) \subseteq Range(chunks[c])

\* C1 witness: a sample is returned from a later chunk of a corpus of several.
SampleReturnedFromLaterChunk ==
    s_pc = "returned" /\ length > 1 /\ Len(chunks) >= 2 /\ chunk_i >= 1

\* C2 (as claimed): a drawn index is accepted exactly when its window lies
\* entirely inside the containing chunk, boundaries[i + 1] >= index + length,
\* so that a window ending exactly at the end of a chunk is returned too.
AcceptsEveryNonCrossingWindow ==
    (s_pc \in {"loop", "returned"} /\ index >= 0) =>
        ((s_pc = "returned") <=>
            boundaries(chunks)[chunk_i + 1] >= index + length)

\* f is monotonic non-decreasing on lo..hi: false ... false, true ... true
Monotone(f, lo, hi) ==
    \A a, b \in lo..hi : (a <= b /\ f[a]) => f[b]

\* C7: for lo <= hi and f monotonic non-decreasing on lo..hi, binary_search
\* returns None exactly when f(lo) is true or f(hi) is false, and otherwise
\* the unique h in lo+1..hi with f(h-1) false and f(h) true.
BinarySearchFindsFlip ==
    (bs_pc = "returned" /\ bs_lo <= bs_hi /\ Monotone(bs_f, bs_lo, bs_hi)) =>
        /\ (bs_ret = None) <=> (bs_f[bs_lo] \/ ~bs_f[bs_hi])
        /\ bs_ret # None =>
              /\ bs_ret[1] \in (bs_lo + 1)..bs_hi
              /\ ~bs_f[bs_ret[1] - 1]
              /\ bs_f[bs_ret[1]]
              /\ \A k \in (bs_lo + 1)..bs_hi :
                     (~bs_f[k - 1] /\ bs_f[k]) => k = bs_ret[1]

\* C7 witness: a search of a range of 4 that narrowed to an inner flip.
SearchNarrowedToFlip ==
    /\ bs_pc = "returned" /\ Monotone(bs_f, bs_lo, bs_hi)
    /\ bs_hi >= bs_lo + 3
    /\ bs_ret = Some(bs_lo + 2)

\* C8 (as claimed): sample(length) fails exactly when length is not strictly
\* below the per-chunk average size total_size / len(chunks).
SampleFailsIffNotBelowAverage ==
    s_pc \in {"loop", "returned", "failed"} =>
        ((s_pc = "failed") <=> ~(length * Len(chunks) < total_size(chunks)))

\* C8 (amended): sample(length) fails, before any index is drawn and without
\* a sample, exactly when length < total_size // len(chunks) is false: when
\* length is not strictly below the FLOOR of the per-chunk average size.
SampleFailsIffNotBelowFloorAverage ==
    s_pc \in {"loop", "returned", "failed"} =>
        /\ (s_pc = "failed") <=>
              ~(\E q \in 0..total_size(chunks) :
                    /\ q * Len(chunks) <= total_size(chunks)
                    /\ total_size(chunks) < (q + 1) * Len(chunks)
                    /\ length < q)
        /\ s_pc = "failed" => (index = -1 /\ result = None)

\* C8 witness: the call failed although length is below the exact average.
SampleFailedBelowExactAverage ==
    s_pc = "failed" /\ length * Len(chunks) < total_size(chunks)

\* C9: with factoring on, a variable of rank >= 2 gets as second-moment
\* slots exactly vr of shape shape[:-1] and vc of shape shape[:-2]+shape[-1:]
\* and no full-shape v, so an A x B matrix keeps A+B scalars; any other
\* variable gets exactly the one slot v of its own shape.
SecondMomentSlotShapes ==
    o_pc = "created" =>
        \A n \in 1..Len(var_list) :
            LET shape == var_list[n]
                r == Len(shape)
                second == DOMAIN slots[n] \ {"m"}
            IN  IF factored /\ r >= 2
                THEN /\ second = {"vr", "vc"}
                     /\ slots[n]["vr"] = [k \in 1..(r - 1) |-> shape[k]]
                     /\ slots[n]["vc"] =
                          [k \in 1..(r - 1) |->
                              IF k < r - 1 THEN shape[k] ELSE shape[r]]
                     /\ r = 2 =>
                          Numel(slots[n]["vr"]) + Numel(slots[n]["vc"])
                              = shape[1] + shape[2]
                ELSE /\ second = {"v"}
                     /\ slots[n]["v"] = shape

\* C9 witness: the slots of a (4,3) matrix were created with factoring on,
\* 7 scalars in all.
FactoredSlotsOfMatrix ==
    /\ o_pc = "created" /\ factored /\ var_list = <<(<<4, 3>>)>>
    /\ Numel(slots[1]["vr"]) + Numel(slots[1]["vc"]) = 7

\* the rms given by its square <<num, den>> is at most thr
RmsAtMost(r, thr) == r # NaN /\ r[1][1] <= thr * thr * r[1][2]

\* C10 (as claimed): with clipping_threshold = 1.0, for EVERY tensor x the
\* clipped update has rms(x) <= 1.
ClippedRmsAtMostThreshold ==
    (c_pc = "clipped" /\ clipping_threshold = Some(1)) =>
        RmsAtMost(reduce_rms(x_clipped), 1)

\* C10 (amended): with clipping_threshold = 1.0, for every tensor x whose
\* elements are all finite the clipped update has rms(x) <= 1, and x is left
\* unchanged when its rms is already at most 1.
ClippedRmsAtMostThresholdIfFinite ==
    (c_pc = "clipped" /\ clipping_threshold = Some(1) /\ Finite(x)) =>
        /\ RmsAtMost(reduce_rms(x_clipped), 1)
        /\ RmsAtMost(reduce_rms(x), 1) =>
              (x_clipped.v = x.v /\ x_clipped.scale = x.scale)

\* C10 witness: a finite update of rms above 1 was clipped.
ClippedLargeUpdate ==
    /\ c_pc = "clipped" /\ clipping_threshold = Some(1) /\ Finite(x)
    /\ ~RmsAtMost(reduce_rms(x), 1)
    /\ x_clipped.scale # x.scale

(***************************************************************************)
(* train_main (trainval.py 96-280, trainval_adafactor.py 98-292).          *)
(* variant is "adam" for trainval.py and "adafactor" for                   *)
(* trainval_adafactor.py.  A loss average is the pair (value, weight) of   *)
(* the code, in fixed point: 1/LossScale units, products rounded down.     *)
(* A fraction <<n, d>> (d > 0) stands for n/d.                             *)
(***************************************************************************)
ValEvery == 5             \* if counter % 5 == 0
MissTolerance == 9        \* if missed_val_checkpoints > 9
AdamSaveCadence == 100    \* trainval.py: counter >= 100 and counter % 100 == 0
InitialBestValLoss == 99  \* best_val_loss = 99
DecayPercent == 99        \* the 0.99 of the running averages
MaxToKeep == 5            \* tf.train.Saver(max_to_keep=5)

Less(a, b) == a[1] * b[2] < b[1] * a[2]

\* avg = (avg[0] * 0.99 + loss, avg[1] * 0.99 + 1.0)
Ema(l, loss) ==
    <<(l[1] * DecayPercent) \div 100 + loss * LossScale,
      (l[2] * DecayPercent) \div 100 + LossScale>>

\* str(counter), for counter >= 0, as a sequence of characters
Digits == <<"0", "1", "2", "3", "4", "5", "6", "7", "8", "9">>

RECURSIVE IntToText(_)
IntToText(n) ==
    IF n < 10 THEN <<Digits[n + 1]>>
    ELSE IntToText(n \div 10) \o <<Digits[(n % 10) + 1]>>

\* str(counter) + '\n'
CounterText(n) == IntToText(n) \o <<"\n">>

Whitespace == {"\n", " "}

RECURSIVE StripLeft(_)
StripLeft(t) ==
    IF t # << >> /\ Head(t) \in Whitespace THEN StripLeft(Tail(t)) ELSE t

RECURSIVE StripRight(_)
StripRight(t) ==
    IF t # << >> /\ t[Len(t)] \in Whitespace
    THEN StripRight(SubSeq(t, 1, Len(t) - 1)) ELSE t

RECURSIVE DigitsValue(_)
DigitsValue(t) ==
    IF t = << >> THEN 0
    ELSE 10 * DigitsValue(SubSeq(t, 1, Len(t) - 1))
         + (CHOOSE d \in 0..9 : Digits[d + 1] = t[Len(t)])

ParseIntAsZero(text) == Some(0)

\* int(text) of a text without sign: None stands for ValueError
ParseInt(text) ==
    LET t == StripRight(StripLeft(text))
    IN  IF t = << >> \/ \E k \in 1..Len(t) : t[k] \notin Range(Digits)
        THEN None ELSE Some(DigitsValue(t))

\* the cadence test of the checkpoint decision:
\*   trainval.py:           counter >= 100 and counter % 100 == 0
\*   trainval_adafactor.py: counter >= save_every and counter % save_every == 0
Cadence(v, every, c) ==
    IF v = "adam" THEN c >= AdamSaveCadence /\ c % AdamSaveCadence = 0
    ELSE c >= every /\ c % every = 0

TrainLosses == {2}        \* the loss of a training batch
ValLosses == {1, 2}       \* the loss of a validation batch

LoopPcs ==
    {"while", "generate_samples", "gs_maketree", "gs_write", "train",
     "validate", "checkpoint_check", "save_maketree", "save_model",
     "save_counter_open", "save_counter_write", "saved", "early_stop_check",
     "increment"}

MaketreePcs == {"gs_maketree", "save_maketree"}

\* the powers of the decay-rate schedule
RECURSIVE Pow(_, _)
Pow(b, k) == IF k = 0 THEN 1 ELSE b * Pow(b, k - 1)

\* train_main's beta2 = 0.999, as a fraction
Beta2 == <<999, 1000>>

\* t = to_float(global step) + 1.0
\* decay = beta2 * (1.0 - beta2^(t - 1.0)) / (1.0 - beta2^t), as a fraction:
\* with beta2 = n/d it is n * (d^(t-1) - n^(t-1)) / (d^t - n^t)
adafactor_decay_rate_adam(beta2, gs) ==
    LET t == gs + 1
    IN  <<beta2[1] * (Pow(beta2[2], t - 1) - Pow(beta2[1], t - 1)),
          Pow(beta2[2], t) - Pow(beta2[1], t)>>

\* tf.train.latest_checkpoint of the run directory: the newest snapshot
latest_checkpoint(kept) ==
    IF kept = << >> THEN None ELSE Some(kept[Len(kept)])

StartupResumesAtSavedStep ==
    /\ pc = "startup"
    /\ IF counter_file = None
       THEN /\ counter' = 1 /\ counter_read' = None /\ pc' = "while"
            /\ printed' = <<"Training...">>
            /\ UNCHANGED exit_status
       ELSE LET r == ParseInt(counter_file[1])
            IN  IF r = None
                THEN /\ pc' = "failed" /\ exit_status' = Some(1)
                     /\ UNCHANGED <<counter, counter_read, printed>>
                ELSE /\ counter' = r[1] /\ counter_read' = r /\ pc' = "while"
                     /\ printed' = <<"Training...">>
                     /\ UNCHANGED exit_status
    /\ avg_loss' = <<0, 0>>
    /\ val_loss' = <<0, 0>>
    /\ best_val_loss' = <<InitialBestValLoss, 1>>
    /\ missed_val_checkpoints' = 0
    /\ UNCHANGED <<cfg_vars, store_vars, sigint>>
    /\ global_step' = 0
    /\ step_t' = None
    /\ decay_rate' = None
    /\ restored' = latest_checkpoint(ckpt_models)
    /\ UNCHANGED <<written, restarts>>

\* sess.run(tf.global_variables_initializer()) sets the global step to 0 (the
\* saver holds the model variables only, so no global step is restored);
\* saver.restore of the latest snapshot of the run, else of the base model;
\* counter = 1; if the counter file exists: counter = int(fp.read()) + 1;
\* then the locals of the loop are set
Startup ==
    /\ pc = "startup"
    /\ IF counter_file = None
       THEN /\ counter' = 1 /\ counter_read' = None /\ pc' = "while"
            /\ printed' = <<"Training...">>
            /\ UNCHANGED exit_status
       ELSE LET r == ParseInt(counter_file[1])
            IN  IF r = None
                THEN /\ pc' = "failed" /\ exit_status' = Some(1)
                     /\ UNCHANGED <<counter, counter_read, printed>>
                ELSE /\ counter' = r[1] + 1 /\ counter_read' = r /\ pc' = "while"
                     /\ printed' = <<"Training...">>
                     /\ UNCHANGED exit_status
    /\ avg_loss' = <<0, 0>>
    /\ val_loss' = <<0, 0>>
    /\ best_val_loss' = <<InitialBestValLoss, 1>>
    /\ missed_val_checkpoints' = 0
    /\ UNCHANGED <<cfg_vars, store_vars, sigint>>
    /\ global_step' = 0
    /\ step_t' = None
    /\ decay_rate' = None
    /\ restored' = latest_checkpoint(ckpt_models)
    /\ UNCHANGED <<written, restarts>>

LoopTestInclusive ==
    /\ pc = "while"
    /\ IF counter <= stop_after
       THEN /\ pc' = IF counter % sample_every = 0
                     THEN "generate_samples" ELSE "train"
            /\ UNCHANGED out_vars
       ELSE /\ pc' = "done"
            /\ exit_status' = Some(0)
            /\ UNCHANGED printed
    /\ UNCHANGED <<cfg_vars, store_vars, loss_vars, counter, counter_read, sigint>>
    /\ UNCHANGED <<sched_vars, hist_vars>>

\* while counter < stop_after: ... if counter % sample_every == 0
LoopTest ==
    /\ pc = "while"
    /\ IF counter < stop_after
       THEN /\ pc' = IF counter % sample_every = 0
                     THEN "generate_samples" ELSE "train"
            /\ UNCHANGED out_vars
       ELSE /\ pc' = "done"
            /\ exit_status' = Some(0)
            /\ UNCHANGED printed
    /\ UNCHANGED <<cfg_vars, store_vars, loss_vars, counter, counter_read, sigint>>
    /\ UNCHANGED <<sched_vars, hist_vars>>

\* generate_samples(): data_sampler.sample(1), the sess.run of tf_sample,
\* print(text)
GenerateSamples ==
    /\ pc = "generate_samples"
    /\ printed' = <<"SAMPLE", counter>>
    /\ pc' = "gs_maketree"
    /\ UNCHANGED <<cfg_vars, store_vars, loss_vars, exit_status, counter,
                   counter_read, sigint>>
    /\ UNCHANGED <<sched_vars, hist_vars>>

\* maketree(path): os.makedirs(path), every exception swallowed
Maketree ==
    /\ pc \in MaketreePcs
    /\ pc' = IF pc = "gs_maketree" THEN "gs_write" ELSE "save_model"
    /\ UNCHANGED <<cfg_vars, store_vars, loss_vars, out_vars, counter,
                   counter_read, sigint>>
    /\ UNCHANGED <<sched_vars, hist_vars>>

\* saver.save with max_to_keep: the oldest snapshot is deleted (the
\* snapshots kept by keep_checkpoint_every_n_hours are left out)
KeepSnapshot(kept, step) ==
    LET all == kept \o <<step>>
    IN  IF Len(all) > MaxToKeep THEN Tail(all) ELSE all

\* generate_samples(): the file samples-<counter> is written
WriteSamples ==
    /\ pc = "gs_write"
    /\ sample_files' = sample_files \cup {counter}
    /\ pc' = "train"
    /\ UNCHANGED <<cfg_vars, counter_file, ckpt_models, loss_vars, out_vars,
                   counter, counter_read, sigint>>
    /\ UNCHANGED <<sched_vars, hist_vars>>

\* the batch, the optimizer step, avg_loss; then if counter % 5 == 0.
\* trainval_adafactor.py: sess.run of opt_apply evaluates the decay rate from
\* the global step variable; opt.apply_gradients(opt_grads) is given no
\* global_step, so that nothing increments the variable.  trainval.py: Adam
\* keeps its own beta powers and reads no global step.
TrainStep ==
    /\ pc = "train"
    /\ \E lv \in TrainLosses : avg_loss' = Ema(avg_loss, lv)
    /\ printed' = <<"loss", counter>>
    /\ pc' = IF counter % ValEvery = 0 THEN "validate" ELSE "increment"
    /\ UNCHANGED <<cfg_vars, store_vars, val_loss, best_val_loss,
                   missed_val_checkpoints, exit_status, counter, counter_read,
                   sigint>>
    /\ IF variant = "adafactor"
       THEN /\ step_t' = Some(global_step + 1)
            /\ decay_rate' = Some(adafactor_decay_rate_adam(Beta2, global_step))
       ELSE UNCHANGED <<step_t, decay_rate>>
    /\ global_step' = global_step
    /\ UNCHANGED hist_vars

\* the validation batch, its loss, val_loss and av_val_loss
Validate ==
    /\ pc = "validate"
    /\ \E valacc \in ValLosses : val_loss' = Ema(val_loss, valacc)
    /\ printed' = <<"VAL_loss", counter>>
    /\ pc' = "checkpoint_check"
    /\ UNCHANGED <<cfg_vars, store_vars, avg_loss, best_val_loss,
                   missed_val_checkpoints, exit_status, counter, counter_read,
                   sigint>>
    /\ UNCHANGED <<sched_vars, hist_vars>>

CheckpointCheckNotStrict ==
    /\ pc = "checkpoint_check"
    /\ IF Cadence(variant, save_every, counter)
       THEN IF ~Less(best_val_loss, val_loss)
            THEN pc' = "save_maketree" /\ UNCHANGED missed_val_checkpoints
            ELSE /\ missed_val_checkpoints' = missed_val_checkpoints + 1
                 /\ pc' = "early_stop_check"
       ELSE pc' = "early_stop_check" /\ UNCHANGED missed_val_checkpoints
    /\ UNCHANGED <<cfg_vars, store_vars, avg_loss, val_loss, best_val_loss,
                   out_vars, counter, counter_read, sigint>>
    /\ UNCHANGED <<sched_vars, hist_vars>>

\* if <cadence>: if av_val_loss < best_val_loss: save() ... else: missed += 1
CheckpointCheck ==
    /\ pc = "checkpoint_check"
    /\ IF Cadence(variant, save_every, counter)
       THEN IF Less(val_loss, best_val_loss)
            THEN pc' = "save_maketree" /\ UNCHANGED missed_val_checkpoints
            ELSE /\ missed_val_checkpoints' = missed_val_checkpoints + 1
                 /\ pc' = "early_stop_check"
       ELSE pc' = "early_stop_check" /\ UNCHANGED missed_val_checkpoints
    /\ UNCHANGED <<cfg_vars, store_vars, avg_loss, val_loss, best_val_loss,
                   out_vars, counter, counter_read, sigint>>
    /\ UNCHANGED <<sched_vars, hist_vars>>

\* save(): print('Saving', ...); saver.save(sess, ..., global_step=counter)
SaveModel ==
    /\ pc = "save_model"
    /\ printed' = <<"Saving", counter>>
    /\ ckpt_models' = KeepSnapshot(ckpt_models, counter)
    /\ pc' = "save_counter_open"
    /\ UNCHANGED <<cfg_vars, counter_file, sample_files, loss_vars,
                   exit_status, counter, counter_read, sigint>>
    /\ UNCHANGED <<sched_vars, hist_vars>>

\* save(): open(<counter file>, 'w') truncates the file
SaveCounterOpen ==
    /\ pc = "save_counter_open"
    /\ counter_file' = Some(<< >>)
    /\ pc' = "save_counter_write"
    /\ UNCHANGED <<cfg_vars, ckpt_models, sample_files, loss_vars, out_vars,
                   counter, counter_read, sigint>>
    /\ UNCHANGED <<sched_vars, hist_vars>>

\* save(): fp.write(str(counter) + '\n'), and the file is closed
SaveCounterWrite ==
    /\ pc = "save_counter_write"
    /\ counter_file' = Some(counter_file[1] \o CounterText(counter))
    /\ pc' = "saved"
    /\ UNCHANGED <<cfg_vars, ckpt_models, sample_files, loss_vars, out_vars,
                   counter, counter_read, sigint>>
    /\ written' = written \cup {counter}
    /\ UNCHANGED <<sched_vars, restored, restarts>>

\* best_val_loss = av_val_loss; missed_val_checkpoints = 0
AfterSave ==
    /\ pc = "saved"
    /\ best_val_loss' = val_loss
    /\ missed_val_checkpoints' = 0
    /\ pc' = "early_stop_check"
    /\ UNCHANGED <<cfg_vars, store_vars, avg_loss, val_loss, out_vars,
                   counter, counter_read, sigint>>
    /\ UNCHANGED <<sched_vars, hist_vars>>

\* if missed_val_checkpoints > 9: counter = stop_after + 1
EarlyStopCheck ==
    /\ pc = "early_stop_check"
    /\ counter' = IF missed_val_checkpoints > MissTolerance
                  THEN stop_after + 1 ELSE counter
    /\ pc' = "increment"
    /\ UNCHANGED <<cfg_vars, store_vars, loss_vars, out_vars, counter_read,
                   sigint>>
    /\ UNCHANGED <<sched_vars, hist_vars>>

\* counter += 1
Increment ==
    /\ pc = "increment"
    /\ counter' = counter + 1
    /\ pc' = "while"
    /\ UNCHANGED <<cfg_vars, store_vars, loss_vars, out_vars, counter_read,
                   sigint>>
    /\ UNCHANGED <<sched_vars, hist_vars>>

InterruptCompletesIteration ==
    /\ pc \in LoopPcs
    /\ sigint' = TRUE
    /\ pc' = "interrupted"
    /\ printed' = <<"interrupted">>
    /\ exit_status' = Some(0)
    /\ counter' = counter + 1
    /\ UNCHANGED <<cfg_vars, store_vars, loss_vars, counter_read>>
    /\ UNCHANGED <<sched_vars, hist_vars>>

\* KeyboardInterrupt raised in the loop: except KeyboardInterrupt:
\* print('interrupted'), and train_main returns
Interrupt ==
    /\ pc \in LoopPcs
    /\ sigint' = TRUE
    /\ pc' = "interrupted"
    /\ printed' = <<"interrupted">>
    /\ exit_status' = Some(0)
    /\ UNCHANGED <<cfg_vars, store_vars, loss_vars, counter, counter_read>>
    /\ UNCHANGED <<sched_vars, hist_vars>>

\* KeyboardInterrupt raised inside os.makedirs: the bare `except: pass` of
\* maketree swallows it, and the caller goes on
InterruptInMaketree ==
    /\ pc \in MaketreePcs
    /\ sigint' = TRUE
    /\ pc' = IF pc = "gs_maketree" THEN "gs_write" ELSE "save_model"
    /\ UNCHANGED <<cfg_vars, store_vars, loss_vars, out_vars, counter,
                   counter_read>>
    /\ UNCHANGED <<sched_vars, hist_vars>>

\* a write of the checkpoint or of the samples raises: not caught, the run
\* ends with a traceback; a counter file already opened stays truncated
WriteFails ==
    /\ pc \in {"gs_write", "save_model", "save_counter_open",
                "save_counter_write"}
    /\ pc' = "failed"
    /\ exit_status' = Some(1)
    /\ UNCHANGED <<cfg_vars, store_vars, loss_vars, printed, counter,
                   counter_read, sigint>>
    /\ UNCHANGED <<sched_vars, hist_vars>>

\* the runs tried: the arguments of train_main and the step of the
\* checkpoint found at startup (None: a new run)
Runs ==
    {[variant |-> "adafactor", save_every |-> 5, sample_every |-> 20,
      stop_after |-> LongRun, saved |-> None]}
    \cup {[variant |-> v, save_every |-> 5, sample_every |-> 20,
           stop_after |-> ShortRun, saved |-> f] :
              v \in {"adam", "adafactor"},
              f \in {None, Some(3), Some(9), Some(ShortRun - 1), Some(ShortRun)}}
    \cup {[variant |-> "adam", save_every |-> 5, sample_every |-> 20,
           stop_after |-> AdamSaveCadence + 2, saved |-> Some(AdamSaveCadence - 6)]}
    \cup {[variant |-> "adafactor", save_every |-> 3, sample_every |-> 20,
           stop_after |-> ShortRun + 5, saved |-> None]}

TrainInit ==
    /\ \E r \in Runs :
          /\ variant = r.variant
          /\ save_every = r.save_every
          /\ sample_every = r.sample_every
          /\ stop_after = r.stop_after
          /\ ckpt_models = r.saved
          /\ counter_file = IF r.saved = None THEN None
                            ELSE Some(CounterText(r.saved[1]))
    /\ sample_files = {}
    /\ pc = "startup"
    /\ counter = 0
    /\ counter_read = None
    /\ avg_loss = <<0, 0>>
    /\ val_loss = <<0, 0>>
    /\ best_val_loss = <<0, 1>>
    /\ missed_val_checkpoints = 0
    /\ sigint = FALSE
    /\ printed = << >>
    /\ exit_status = None
    /\ global_step = 0 /\ step_t = None /\ decay_rate = None
    /\ restored = None
    /\ written = IF counter_file = None THEN {} ELSE {ParseInt(counter_file[1])[1]}
    /\ restarts = 0
    /\ BsIdle /\ SIdle /\ OIdle /\ CIdle

TrainNext ==
    \/ Startup /\ UNCHANGED pure_vars
    \/ LoopTest /\ UNCHANGED pure_vars
    \/ GenerateSamples /\ UNCHANGED pure_vars
    \/ Maketree /\ UNCHANGED pure_vars
    \/ WriteSamples /\ UNCHANGED pure_vars
    \/ TrainStep /\ UNCHANGED pure_vars
    \/ Validate /\ UNCHANGED pure_vars
    \/ CheckpointCheck /\ UNCHANGED pure_vars
    \/ SaveModel /\ UNCHANGED pure_vars
    \/ SaveCounterOpen /\ UNCHANGED pure_vars
    \/ SaveCounterWrite /\ UNCHANGED pure_vars
    \/ AfterSave /\ UNCHANGED pure_vars
    \/ EarlyStopCheck /\ UNCHANGED pure_vars
    \/ Increment /\ UNCHANGED pure_vars
    \/ Interrupt /\ UNCHANGED pure_vars
    \/ InterruptInMaketree /\ UNCHANGED pure_vars
    \/ WriteFails /\ UNCHANGED pure_vars

SpecTrain == TrainInit /\ [][TrainNext]_vars

\* the steps the process takes by itself
TrainProgress ==
    \/ Startup \/ LoopTest \/ GenerateSamples \/ Maketree \/ WriteSamples
    \/ TrainStep \/ Validate \/ CheckpointCheck \/ SaveModel
    \/ SaveCounterOpen \/ SaveCounterWrite \/ AfterSave \/ EarlyStopCheck
    \/ Increment

\* the process is not suspended for ever: while it has a step to take, it
\* takes one (or is interrupted, or fails)
SpecTrainFair ==
    /\ TrainInit
    /\ [][TrainNext]_vars
    /\ WF_vars(TrainProgress /\ UNCHANGED pure_vars)

\* ---- several runs on one run directory
Stopped == {"done", "interrupted", "failed"}

\* the script is started again with the same arguments: a new process and a
\* new session, the files of the run directory as the last run left them
\* (the long run is left out: it is run once)
Restart ==
    /\ pc \in Stopped
    /\ restarts < MaxRestarts
    /\ stop_after # LongRun
    /\ restarts' = restarts + 1
    /\ pc' = "startup"
    /\ counter' = 0
    /\ counter_read' = None
    /\ avg_loss' = <<0, 0>>
    /\ val_loss' = <<0, 0>>
    /\ best_val_loss' = <<0, 1>>
    /\ missed_val_checkpoints' = 0
    /\ sigint' = FALSE
    /\ printed' = << >>
    /\ exit_status' = None
    /\ UNCHANGED <<cfg_vars, store_vars, sched_vars, restored, written>>

RestartsInit == TrainInit

RestartsNext ==
    \/ TrainNext
    \/ Restart /\ UNCHANGED pure_vars

SpecRestarts == RestartsInit /\ [][RestartsNext]_vars

(***************************************************************************)
(* Properties of the training loop.                                        *)
(***************************************************************************)
SavePcs ==
    {"save_maketree", "save_model", "save_counter_open", "save_counter_write",
     "saved"}

Last(seq) == seq[Len(seq)]

\* the checks between two steps: the iterations that reach the checkpoint
\* decision
ChecksBetween(from, to) ==
    {k \in (from + 1)..to :
        k % ValEvery = 0 /\ Cadence(variant, save_every, k)}

\* the step of the checkpoint decision, unless the run is interrupted there
CheckpointDecisionStep ==
    (pc = "checkpoint_check" /\ pc' # "interrupted"
        /\ Cadence(variant, save_every, counter)) =>
        IF Less(val_loss, best_val_loss)
        THEN /\ pc' = "save_maketree"
             /\ missed_val_checkpoints' = missed_val_checkpoints
        ELSE /\ pc' = "early_stop_check"
             /\ missed_val_checkpoints' = missed_val_checkpoints + 1
             /\ UNCHANGED <<store_vars, best_val_loss>>

\* the end of a save: the checkpoint of this step is in the store
SaveCompletedStep ==
    (pc = "saved" /\ pc' # "interrupted") =>
        /\ ckpt_models # << >> /\ Last(ckpt_models) = counter
        /\ counter_file = Some(CounterText(counter))
        /\ best_val_loss' = val_loss
        /\ missed_val_checkpoints' = 0

\* the checkpoint store changes only inside save()
StoreWrittenOnlyBySave ==
    <<counter_file, ckpt_models>>' # <<counter_file, ckpt_models>> =>
        pc \in SavePcs

\* save() runs only at a cadence check whose validation average improved
SaveOnlyOnImprovement ==
    pc \in SavePcs =>
        /\ counter % ValEvery = 0
        /\ Cadence(variant, save_every, counter)
        /\ Less(val_loss, best_val_loss)

\* once more than MissTolerance checks in a row have missed, nothing more is
\* trained: the last line printed is the validation line of the tenth check
\* after the last checkpoint, and the loop test ends the run
EarlyStopIsImmediate ==
    missed_val_checkpoints > MissTolerance =>
        /\ missed_val_checkpoints = MissTolerance + 1
        /\ pc \in {"early_stop_check", "increment", "while", "done",
                    "interrupted"}
        /\ pc \in {"early_stop_check", "increment", "while", "done"} =>
              /\ printed[1] = "VAL_loss"
              /\ ckpt_models # << >>
              /\ Cardinality(ChecksBetween(Last(ckpt_models), printed[2]))
                    = MissTolerance + 1
              /\ printed[2] \in ChecksBetween(Last(ckpt_models), printed[2])
        /\ pc = "increment" => counter = stop_after + 1
        /\ pc \in {"while", "done"} => counter = stop_after + 2

\* C3: at every cadence check a checkpoint is persisted, best_val_loss
\* updated and missed_val_checkpoints reset exactly when the validation
\* average is strictly below best_val_loss, and otherwise
\* missed_val_checkpoints is incremented; and the loop stops right after the
\* tenth miss in a row, with no further training step.
ValidationGatedCheckpoints ==
    /\ [][CheckpointDecisionStep /\ SaveCompletedStep
            /\ StoreWrittenOnlyBySave]_vars
    /\ [](SaveOnlyOnImprovement /\ EarlyStopIsImmediate)

\* C3 witness: a new run saved at the first three checks, missed the next
\* ten, and ended after the validation of the thirteenth.
StoppedAfterThreeSavesAndTenMisses ==
    /\ pc = "done"
    /\ missed_val_checkpoints = MissTolerance + 1
    /\ ckpt_models = <<save_every, 2 * save_every, 3 * save_every>>
    /\ printed = <<"VAL_loss", 13 * save_every>>
    /\ counter = stop_after + 2

\* the step that reads the counter file
ResumeStep ==
    pc = "startup" =>
        /\ pc' = "while"
        /\ IF counter_file = None THEN counter' = 1
           ELSE \E n \in 0..(LongRun + AdamSaveCadence) :
                    /\ counter_file = Some(CounterText(n))
                    /\ counter' = n + 1

\* C4: a counter file that holds N makes the first iteration run at counter
\* N+1, and no counter file at counter 1; the run never executes or saves
\* step N itself.
ResumesAfterPersistedStep ==
    /\ [][ResumeStep]_vars
    /\ []((pc \in LoopPcs /\ avg_loss = <<0, 0>>) =>
             counter = IF counter_read = None THEN 1 ELSE counter_read[1] + 1)
    /\ []((pc \in LoopPcs \ {"while"} /\ counter_read # None) =>
             counter > counter_read[1])

\* C4 witness: the first iteration of a run resumed from a step of two
\* digits trains at the next step.
FirstIterationAfterResume ==
    /\ pc = "train" /\ avg_loss = <<0, 0>>
    /\ counter_read # None /\ counter_read[1] >= 10
    /\ counter_file = Some(CounterText(counter - 1))

\* C5 (as claimed): once a KeyboardInterrupt has been delivered while the
\* loop runs, the loop has stopped: 'interrupted' is printed, the run ends
\* with status 0, and no step of the loop follows.
InterruptStopsLoop ==
    sigint =>
        /\ pc = "interrupted"
        /\ printed = <<"interrupted">>
        /\ exit_status = Some(0)

\* what a run reports when it ends: its exit status and the message it
\* prints on the way out (the lines of the iterations are not one)
TerminationReport ==
    <<exit_status, IF printed = <<"interrupted">> THEN printed ELSE << >> >>

\* the report of a run that used up its budget: nothing printed, status 0
BudgetExhaustedReport == <<Some(0), << >> >>

\* C6 (as claimed): a run ended by the early stop reports something else
\* than a run ended by its budget, and neither reports a failure.
EarlyStopReportedApart ==
    pc = "done" =>
        /\ exit_status = Some(0)
        /\ missed_val_checkpoints <= MissTolerance =>
              TerminationReport = BudgetExhaustedReport
        /\ missed_val_checkpoints > MissTolerance =>
              TerminationReport # BudgetExhaustedReport

\* C11 (as claimed): successive optimizer steps of one run of
\* trainval_adafactor.py evaluate the decay-rate schedule at strictly
\* increasing step numbers t, and from the second step on the decay rate is
\* no longer its value at the first step.
DecayScheduleAdvances ==
    [][(pc = "train" /\ pc' # "interrupted" /\ variant = "adafactor"
            /\ step_t # None) =>
          /\ step_t'[1] > step_t[1]
          /\ decay_rate' # Some(adafactor_decay_rate_adam(Beta2, 0))]_vars

\* an iteration whose counter is a positive multiple of the configured
\* save_every and a validation iteration
AtConfiguredCadence ==
    counter >= save_every /\ counter % save_every = 0 /\ counter % ValEvery = 0

\* C12 (as claimed): whatever the script, an iteration takes a checkpoint
\* decision (it enters save(), or adds one to missed_val_checkpoints) exactly
\* when its counter is a positive multiple of the configured save_every and a
\* validation iteration; no other iteration changes best_val_loss,
\* missed_val_checkpoints or the checkpoint store.
DecisionAtConfiguredCadence ==
    /\ [][(pc = "checkpoint_check" /\ pc' # "interrupted") =>
            ((pc' = "save_maketree"
                \/ missed_val_checkpoints' = missed_val_checkpoints + 1)
             <=> AtConfiguredCadence)]_vars
    /\ [][(pc \in LoopPcs /\ ~AtConfiguredCadence) =>
            UNCHANGED <<best_val_loss, missed_val_checkpoints, counter_file,
                        ckpt_models>>]_vars

RejectionLoopReturns ==
    /\ []((s_pc # "call" /\ 0 <= length /\ SampleAssertOk(chunks, length)) =>
            /\ s_pc \in {"loop", "returned"}
            /\ \E idx \in RandintRange(chunks, length) :
                  /\ ChunkOf(chunks, idx) # None
                  /\ Accepts(chunks, idx, length, ChunkOf(chunks, idx)[1]))
    /\ (s_pc = "loop") ~> (s_pc = "returned")

\* C14 witness: a draw was rejected in a corpus of several chunks, and the
\* loop draws again.
RejectedDrawInLoop ==
    /\ s_pc = "loop" /\ index >= 0 /\ Len(chunks) >= 2 /\ length >= 1
    /\ ~Accepts(chunks, index, length, chunk_i)

\* the counter the loop starts at
FirstCounter == IF counter_read = None THEN 1 ELSE counter_read[1] + 1

\* the early stop has set, or is about to set, counter past the budget
EarlyStopped == missed_val_checkpoints > MissTolerance

\* the loop test lets counter in exactly when it is below the budget, and
\* the first iteration is the one of FirstCounter
LoopTestStep ==
    pc = "while" =>
        /\ pc' \in {"generate_samples", "train"} =>
              /\ counter < stop_after
              /\ avg_loss = <<0, 0>> => counter = FirstCounter
        /\ pc' = "done" => counter >= stop_after

\* counter is incremented once, at the end of the iteration, and nowhere
\* else changed unless the early stop sets it
CounterStep ==
    /\ (pc = "increment" /\ pc' = "while") => counter' = counter + 1
    /\ (pc \in LoopPcs \ {"increment"} /\ ~EarlyStopped) => counter' = counter

\* a run ended by its budget: counter is the budget, the last iteration was
\* the one of stop_after - 1; or nothing was run, the first counter being at
\* or past the budget
EndedAtBudget ==
    (pc = "done" /\ ~EarlyStopped) =>
        /\ exit_status = Some(0)
        /\ IF FirstCounter >= stop_after
           THEN /\ counter = FirstCounter
                /\ avg_loss = <<0, 0>> /\ printed = <<"Training...">>
           ELSE /\ counter = stop_after
                /\ printed[1] \in {"loss", "VAL_loss", "Saving"}
                /\ printed[2] = stop_after - 1

\* C15: without interrupt and early stop, the loop started at counter c0
\* runs the iterations c0, c0 + 1, ..., stop_after - 1 (none when
\* c0 >= stop_after), counter increasing by exactly 1 per iteration, and
\* ends normally once counter has reached stop_after; and every run
\* eventually stops.
LoopRunsToBudget ==
    /\ [][LoopTestStep /\ CounterStep]_vars
    /\ []((pc \in LoopPcs \ {"while"} /\ ~EarlyStopped) =>
            (FirstCounter <= counter /\ counter < stop_after))
    /\ []EndedAtBudget
    /\ <>(pc \in Stopped)

\* C15 witness: a run resumed below its budget has ended at the budget, its
\* last iteration being the one of stop_after - 1.
ResumedRunEndedAtBudget ==
    /\ pc = "done" /\ ~EarlyStopped
    /\ counter_read # None /\ FirstCounter + 2 < stop_after
    /\ counter = stop_after /\ printed[2] = stop_after - 1

\* C16 (as claimed): whenever a run has stopped, interrupted or failed runs
\* included, the counter file names the step of the newest snapshot of the
\* store (and there is no counter file when there is no snapshot); and a run
\* started again resumes the counter of the very step whose parameters it
\* restored.
CounterFileNamesLatestSnapshot ==
    /\ pc \in Stopped =>
          counter_file = IF ckpt_models = << >> THEN None
                         ELSE Some(CounterText(Last(ckpt_models)))
    /\ (pc \in LoopPcs /\ restarts > 0) => restored = counter_read

\* a step that changes the counter file: the truncation of open(..., 'w'),
\* or the write of the counter of the iteration that is being saved
CounterFileStep ==
    counter_file' # counter_file =>
        \/ /\ pc = "save_counter_open"
           /\ counter_file' = Some(<< >>)
           /\ written' = written
        \/ /\ pc = "save_counter_write"
           /\ counter_file' = Some(CounterText(counter))
           /\ written' = written \cup {counter}
           /\ \A w \in written : counter > w
           /\ FirstCounter <= counter /\ counter < stop_after
           /\ printed = <<"Saving", counter>>

\* C17: over runs and restarts, every value written to the counter file is
\* strictly greater than every value written before it and is the counter of
\* the iteration being saved, below the budget (so never the early stop's
\* stop_after + 1); and within a run the counter never decreases.
PersistedCounterMonotonic ==
    /\ [][CounterFileStep]_vars
    /\ [][written' # written => counter_file' # counter_file]_vars
    /\ [][pc \notin Stopped => counter' >= counter]_vars
    /\ [](\A w \in written : w # stop_after + 1)

\* C17 witness: a run started again from a persisted counter has written a
\* later counter, the third value written to the file.
RestartedRunWroteLaterCounter ==
    /\ pc = "saved" /\ restarts >= 1
    /\ counter_read # None /\ counter_read[1] \in written
    /\ counter_read[1] < counter
    /\ Cardinality(written) >= 3

====
